---------------------------- MODULE Spec2Model ----------------------------
(***************************************************************************)
(* A state-machine model of the chaos game of main.cpp: option parsing,    *)
(* the creation of the polygon's vertices and of the first point, the      *)
(* generation loop (die roll, blend, dedup, append, redraw, event poll,    *)
(* counter increment), the SIGINT handler and the shutdown.                *)
(*                                                                         *)
(* Conventions.                                                            *)
(*  - An SDL_Rect {x, y, RECTS_WIDTH, RECTS_HEIGHT} is the pair <<x, y>>:  *)
(*    width and height are the constant 1.                                 *)
(*  - factor is the pair <<numerator, denominator>> of a dyadic rational;  *)
(*    those are exact as float and make the blend exact in double.         *)
(*  - optarg is what atoi/atof return for the option's text: an integer,   *)
(*    a rational, or (--dimensions) the sequence of the integers atoi      *)
(*    returns for the items between the 'x' separators.                    *)
(*  - uint32_t i is the pair <<high half, low half>> of 16-bit halves, so  *)
(*    that the counter keeps its 32 bits within TLC's integers.            *)
(*  - the double returned by hash_point is the exact rational              *)
(*    x/PRIME_1 + y/PRIME_2, held as the numerator x*PRIME_2 + y*PRIME_1   *)
(*    over PRIME_1*PRIME_2 in two base-2^16 halves.  Two distinct          *)
(*    rationals of that shape with 0 <= x, y < 2^16 differ by at least     *)
(*    1/(PRIME_1*PRIME_2) > 2e-9, far above the rounding error (< 1e-14)   *)
(*    of the double computation, so the doubles of two points differ       *)
(*    whenever the rationals do.  Two equal rationals can round to         *)
(*    different doubles; on the points used here (ProbeXs, ProbeYs and     *)
(*    the points of the walks) the doubles are equal exactly when the      *)
(*    rationals are.                                                       *)
(***************************************************************************)
EXTENDS Integers, Sequences, FiniteSets, TLC

VARIABLES
    argv,             \* the options on the command line, in order
    optind,           \* number of options getopt_long has consumed
    screen_width, screen_height, num_vertices, factor,
    stepping, frame_delay_ms,
    flag_continue,
    rects,            \* std::vector<SDL_Rect> rects
    rects_hashmap,    \* std::unordered_map<double, bool>
    vertices,         \* Vertex vertices[num_vertices]
    x_point, y_point, last_x_point, last_y_point,
    die_roll, hash,
    i, num_rects,
    pc,               \* position of main
    quit_pending,     \* an SDL_QUIT event waits in SDL's event queue
    screen,           \* the point rectangles of the last SDL_RenderFillRects
    frames,           \* number of SDL_RenderPresent calls so far
    since,            \* generation steps made since the last redraw
    rolls,            \* the die rolls made so far, in order
    checked           \* the points the dedup check has been applied to

vars == <<argv, optind, screen_width, screen_height, num_vertices, factor,
          stepping, frame_delay_ms, flag_continue, rects, rects_hashmap,
          vertices, x_point, y_point, last_x_point, last_y_point, die_roll,
          hash, i, num_rects, pc, quit_pending, screen, frames, since,
          rolls, checked>>

config == <<argv, optind, screen_width, screen_height, num_vertices, factor,
            stepping, frame_delay_ms>>

(***************************************************************************)
(* Bounds of the model.                                                    *)
(***************************************************************************)
MaxArgs == 1
MaxIters == 3
MaxProbes == 2

(***************************************************************************)
(* Program constants and defaults.                                         *)
(***************************************************************************)
PRIME_1 == 20011
PRIME_2 == 24481
DefaultWidth == 1000
DefaultHeight == 1000
DefaultVertices == 3
DefaultStepping == 2500
DefaultFrameDelay == 50
DefaultFactor == <<1, 2>>

(***************************************************************************)
(* Inputs.                                                                 *)
(***************************************************************************)
ArgsV == {2, 4}
ArgsF == {<<0, 1>>, <<1, 4>>}
ArgsS == {0, 2}
ArgsD == {-1, 0}
ArgsZ == {<<-1, 5>>, <<8, 6>>, <<7>>}
Options == [opt : {"v"}, arg : ArgsV] \cup [opt : {"f"}, arg : ArgsF]
           \cup [opt : {"s"}, arg : ArgsS] \cup [opt : {"d"}, arg : ArgsD]
           \cup [opt : {"z"}, arg : ArgsZ] \cup [opt : {"h"}, arg : {0}]
\* values of the two rand() calls that make the first point
RandSamples == {<<1003, 0>>, <<0, 1003>>}

(***************************************************************************)
(* Integer conversions.                                                    *)
(***************************************************************************)
U16(n) == n % 65536            \* conversion of an int to uint16_t

Range(s) == {s[k] : k \in DOMAIN s}

\* uint32_t i: <<high, low>>, value high * 2^16 + low
U32Zero == <<0, 0>>
U32Inc(u) ==
    IF u[2] < 65535 THEN <<u[1], u[2] + 1>>
    ELSE <<(u[1] + 1) % 65536, 0>>
\* u % s for 0 < s < 2^15 (the products stay below 2^31)
U32Mod(u, s) == (((u[1] % s) * (65536 % s)) + (u[2] % s)) % s


(***************************************************************************)
(* hash_point: x/PRIME_1 + y/PRIME_2 as the numerator x*PRIME_2 +          *)
(* y*PRIME_1 over the common denominator, in two base-2^16 halves.         *)
(***************************************************************************)
hash_pointSum(x, y) == <<x + y, 0>>

hash_point(x, y) ==
    LET a == x * PRIME_2
        b == y * PRIME_1
        low == (a % 65536) + (b % 65536)
    IN  <<(a \div 65536) + (b \div 65536) + (low \div 65536), low % 65536>>

(***************************************************************************)
(* The vertices.  theta = 270 + float(k * 360) / float(num_vertices); the  *)
(* tables hold cos and sin of theta*M_PI/180, times the factor by which    *)
(* 1.0 - SCREEN_MARGINS (0.94999999925...) differs from 0.95, as the two   *)
(* bounds the double lies between.  A bound <<c, s>> is c millionths, plus *)
(* (s = 1) or minus (s = -1) a positive amount far below a millionth:      *)
(* cos of the double nearest 3*pi/2 is -1.8e-16, not 0, and 1.0 times the  *)
(* margin factor is just below 1.                                          *)
(***************************************************************************)
Theta(k, n) == 270 + ((k * 360) \div n)

Exactly(c, s) == << <<c, s>>, <<c, s>> >>
Between(a, b) == << <<a, 0>>, <<b, 0>> >>

CosTable(deg) ==
    CASE deg = 270 -> Exactly(0, -1)
      [] deg = 360 -> Exactly(1000000, -1)
      [] deg = 390 -> Between(866025, 866026)
      [] deg = 450 -> Exactly(0, 1)
      [] deg = 510 -> Between(-866026, -866025)
      [] deg = 540 -> Exactly(-1000000, 1)

SinTable(deg) ==
    CASE deg = 270 -> Exactly(-1000000, 1)
      [] deg = 360 -> Exactly(0, -1)
      [] deg = 390 -> Exactly(500000, -1)
      [] deg = 450 -> Exactly(1000000, -1)
      [] deg = 510 -> Exactly(500000, -1)
      [] deg = 540 -> Exactly(0, 1)

\* The numbers of vertices the tables cover.
TabledVertices == {3, 4}

\* Conversion to an integer type of n + s * (a tiny positive amount):
\* truncation toward zero.
TruncNear(n, s) ==
    IF s < 0 /\ n > 0 THEN n - 1
    ELSE IF s > 0 /\ n < 0 THEN n + 1
    ELSE n

\* Conversion of a value strictly between n and n + 1.
TruncOpen(n) == IF n >= 0 THEN n ELSE n + 1

\* uint16_t(size/2 + t * (size * 0.95 / 2)) for t the bound b: the product
\* is |c| * size * 19 / (4 * 10^7), computed in two parts to stay below 2^31.
CoordAt(size, b) ==
    LET m == IF b[1] < 0 THEN -b[1] ELSE b[1]
        hi == (size * 19) \div 1000
        lo == (size * 19) % 1000
        t == (m * hi) + ((m * lo) \div 1000)
        q == t \div 40000
        whole == (t % 40000 = 0) /\ ((m * lo) % 1000 = 0)
        half == size \div 2
    IN  U16(IF whole
            THEN TruncNear(IF b[1] < 0 THEN half - q ELSE half + q, b[2])
            ELSE IF b[1] < 0 THEN TruncOpen(half - q - 1)
            ELSE TruncOpen(half + q))

\* The same with the margin forgotten: a radius of size/2.
CoordsNoMargin(size, entry) ==
    {U16((size \div 2) + (((entry[1][1] \div 1000) * size) \div 2000))}

\* The values x_point (y_point) can take for a table entry.
Coords(size, entry) == CoordAt(size, entry[1]) .. CoordAt(size, entry[2])

RECURSIVE VertexSeqs(_, _, _, _)
\* The arrays the vertex loop can produce for vertices 0 .. k-1.
VertexSeqs(k, n, width, height) ==
    IF k = 0 THEN {<<>>}
    ELSE {Append(vs, <<x, y>>) :
            vs \in VertexSeqs(k - 1, n, width, height),
            x \in Coords(width, CosTable(Theta(k - 1, n))),
            y \in Coords(height, SinTable(Theta(k - 1, n)))}

(***************************************************************************)
(* The blend: round(last * (1.0 - factor) + vertex * factor), converted to *)
(* uint16_t.  round() rounds halves away from zero; the value is >= 0.     *)
(***************************************************************************)
BlendNoRound(last, vertex, f) ==
    U16((last * (f[2] - f[1]) + vertex * f[1]) \div f[2])

Blend(last, vertex, f) ==
    U16((2 * (last * (f[2] - f[1]) + vertex * f[1]) + f[2]) \div (2 * f[2]))


(***************************************************************************)
(* The state before main runs: the globals at their defaults, the locals   *)
(* not yet assigned (shown as 0 or empty; none is read before it is set).  *)
(***************************************************************************)
Init ==
    /\ argv \in UNION {[1..n -> Options] : n \in 0..MaxArgs}
    /\ optind = 0
    /\ screen_width = DefaultWidth
    /\ screen_height = DefaultHeight
    /\ num_vertices = DefaultVertices
    /\ factor = DefaultFactor
    /\ stepping = DefaultStepping
    /\ frame_delay_ms = DefaultFrameDelay
    /\ flag_continue = TRUE
    /\ rects = <<>>
    /\ rects_hashmap = <<>>
    /\ vertices = <<>>
    /\ x_point = 0 /\ y_point = 0
    /\ last_x_point = 0 /\ last_y_point = 0
    /\ die_roll = 0
    /\ hash = <<0, 0>>
    /\ i = U32Zero
    /\ num_rects = 0
    /\ pc = "args"
    /\ quit_pending = FALSE
    /\ screen = <<>>
    /\ frames = 0
    /\ since = 0
    /\ rolls = <<>>
    /\ checked = {}

loopState == <<rects, rects_hashmap, vertices, x_point, y_point,
               last_x_point, last_y_point, die_roll, hash, i, num_rects,
               quit_pending, screen, frames, since, rolls, checked>>

(***************************************************************************)
(* Option parsing: one action per case of the switch.                      *)
(***************************************************************************)
HasOption(o) == pc = "args" /\ optind < Len(argv) /\ argv[optind + 1].opt = o
optarg == argv[optind + 1].arg

Consumed ==
    /\ optind' = optind + 1
    /\ UNCHANGED <<argv, flag_continue, loopState>>

OptHelp ==
    /\ HasOption("h")
    /\ pc' = "exited"
    /\ Consumed
    /\ UNCHANGED <<screen_width, screen_height, num_vertices, factor,
                   stepping, frame_delay_ms>>

OptStepping ==
    /\ HasOption("s")
    /\ stepping' = IF optarg > 0 THEN optarg ELSE stepping
    /\ Consumed
    /\ UNCHANGED <<pc, screen_width, screen_height, num_vertices, factor,
                   frame_delay_ms>>

OptFrameDelay ==
    /\ HasOption("d")
    /\ frame_delay_ms' = IF optarg >= 0 THEN U16(optarg) ELSE frame_delay_ms
    /\ Consumed
    /\ UNCHANGED <<pc, screen_width, screen_height, num_vertices, factor,
                   stepping>>

OptVertices ==
    /\ HasOption("v")
    /\ num_vertices' = IF optarg >= 3 /\ optarg <= 255 THEN U16(optarg)
                       ELSE num_vertices
    /\ Consumed
    /\ UNCHANGED <<pc, screen_width, screen_height, factor, stepping,
                   frame_delay_ms>>

OptFraction ==
    /\ HasOption("f")
    /\ factor' = IF optarg[1] > 0 /\ optarg[1] < optarg[2] THEN optarg
                 ELSE factor
    /\ Consumed
    /\ UNCHANGED <<pc, screen_width, screen_height, num_vertices, stepping,
                   frame_delay_ms>>

\* split_strings: each item goes through uint16_t before it is stored
SplitStrings(items) == [k \in DOMAIN items |-> U16(items[k])]

DimensionsAccepted(items) ==
    ~ (Len(items) # 2 \/ SplitStrings(items)[1] <= 0
                      \/ SplitStrings(items)[2] <= 0)

OptDimensions ==
    /\ HasOption("z")
    /\ IF DimensionsAccepted(optarg)
       THEN /\ screen_width' = SplitStrings(optarg)[1]
            /\ screen_height' = SplitStrings(optarg)[2]
       ELSE UNCHANGED <<screen_width, screen_height>>
    /\ Consumed
    /\ UNCHANGED <<pc, num_vertices, factor, stepping, frame_delay_ms>>

(***************************************************************************)
(* SDL_Init, SDL_CreateWindow or SDL_CreateRenderer fails: return 1.       *)
(***************************************************************************)
SdlFailure ==
    /\ pc = "args" /\ optind = Len(argv)
    /\ pc' = "failed"
    /\ UNCHANGED <<config, flag_continue, loopState>>

(***************************************************************************)
(* The storage, the vertices, the first point and the loop's locals.      *)
(***************************************************************************)
Setup ==
    /\ pc = "args" /\ optind = Len(argv)
    /\ num_vertices \in TabledVertices
    /\ \E vs \in VertexSeqs(num_vertices, num_vertices,
                            screen_width, screen_height),
          r \in RandSamples :
         /\ vertices' = vs
         /\ x_point' = vs[num_vertices][1]
         /\ y_point' = vs[num_vertices][2]
         /\ last_x_point' = U16(r[1] % screen_width)
         /\ last_y_point' = U16(r[2] % screen_height)
         /\ rects' = <<<<U16(r[1] % screen_width),
                         U16(r[2] % screen_height)>>>>
    /\ rects_hashmap' = <<>>
    /\ i' = U32Zero
    /\ num_rects' = 0
    /\ pc' = "top"
    /\ UNCHANGED <<config, flag_continue, die_roll, hash, quit_pending,
                   screen, frames, since, rolls, checked>>


(***************************************************************************)
(* The generation loop.                                                    *)
(***************************************************************************)
LoopPcs == {"top", "step", "dedup", "update", "redraw", "poll", "incr"}

\* the same with the test of flag_continue forgotten
ContinueAlways ==
    /\ pc = "top"
    /\ Len(rolls) < MaxIters
    /\ pc' = "step"
    /\ UNCHANGED <<config, flag_continue, loopState>>

\* while (flag_continue): the test succeeds
Continue ==
    /\ pc = "top" /\ flag_continue
    /\ Len(rolls) < MaxIters
    /\ pc' = "step"
    /\ UNCHANGED <<config, flag_continue, loopState>>

\* roll the die and blend the last point with the chosen vertex
Step ==
    /\ pc = "step"
    /\ \E d \in 0 .. (num_vertices - 1) :
         /\ die_roll' = d
         /\ x_point' = Blend(last_x_point, vertices[d + 1][1], factor)
         /\ y_point' = Blend(last_y_point, vertices[d + 1][2], factor)
         /\ rolls' = Append(rolls, d)
    /\ since' = since + 1
    /\ pc' = "dedup"
    /\ UNCHANGED <<config, flag_continue, rects, rects_hashmap, vertices,
                   last_x_point, last_y_point, hash, i, num_rects,
                   quit_pending, screen, frames, checked>>

\* rects_hashmap[k]: the value stored, false when the key is new
Lookup(h, k) == IF k \in DOMAIN h THEN h[k] ELSE FALSE

\* rects_hashmap[k] with the store forgotten: the lookup leaves false behind
StoredFalse(h, k) == [j \in (DOMAIN h) \cup {k} |-> IF j = k THEN FALSE ELSE h[j]]

\* rects_hashmap[k] = true
Stored(h, k) == [j \in (DOMAIN h) \cup {k} |-> IF j = k THEN TRUE ELSE h[j]]

\* the dedup check with its test forgotten: every point is appended
DedupCheckAlways(x, y) ==
    /\ hash' = hash_point(x, y)
    /\ rects_hashmap' = Stored(rects_hashmap, hash_point(x, y))
    /\ num_rects' = num_rects + 1
    /\ rects' = Append(rects, <<x, y>>)
    /\ checked' = checked \cup {<<x, y>>}

\* hash the point and, when its key is new, record the key and append the
\* point
DedupCheck(x, y) ==
    /\ hash' = hash_point(x, y)
    /\ IF Lookup(rects_hashmap, hash_point(x, y)) = FALSE
       THEN /\ rects_hashmap' = Stored(rects_hashmap, hash_point(x, y))
            /\ num_rects' = num_rects + 1
            /\ rects' = Append(rects, <<x, y>>)
       ELSE UNCHANGED <<rects_hashmap, num_rects, rects>>
    /\ checked' = checked \cup {<<x, y>>}

Dedup ==
    /\ pc = "dedup"
    /\ DedupCheck(x_point, y_point)
    /\ pc' = "update"
    /\ UNCHANGED <<config, flag_continue, vertices, x_point, y_point,
                   last_x_point, last_y_point, die_roll, i, quit_pending,
                   screen, frames, since, rolls>>

Update ==
    /\ pc = "update"
    /\ last_x_point' = x_point
    /\ last_y_point' = y_point
    /\ pc' = "redraw"
    /\ UNCHANGED <<config, flag_continue, rects, rects_hashmap, vertices,
                   x_point, y_point, die_roll, hash, i, num_rects,
                   quit_pending, screen, frames, since, rolls, checked>>

\* i % stepping == 0: clear, draw num_rects point rectangles from &rects[0],
\* draw the vertices, present, SDL_Delay(frame_delay_ms)
Redraw ==
    /\ pc = "redraw"
    /\ U32Mod(i, stepping) = 0
    /\ screen' = SubSeq(rects, 1, num_rects)
    /\ frames' = frames + 1
    /\ since' = 0
    /\ pc' = "poll"
    /\ UNCHANGED <<config, flag_continue, rects, rects_hashmap, vertices,
                   x_point, y_point, last_x_point, last_y_point, die_roll,
                   hash, i, num_rects, quit_pending, rolls, checked>>

NoRedraw ==
    /\ pc = "redraw"
    /\ U32Mod(i, stepping) # 0
    /\ pc' = "poll"
    /\ UNCHANGED <<config, flag_continue, loopState>>

\* while (SDL_PollEvent(&event)): an SDL_QUIT event clears flag_continue
Poll ==
    /\ pc = "poll"
    /\ flag_continue' = IF quit_pending THEN FALSE ELSE flag_continue
    /\ quit_pending' = FALSE
    /\ pc' = "incr"
    /\ UNCHANGED <<config, rects, rects_hashmap, vertices, x_point, y_point,
                   last_x_point, last_y_point, die_roll, hash, i, num_rects,
                   screen, frames, since, rolls, checked>>

Incr ==
    /\ pc = "incr"
    /\ i' = U32Inc(i)
    /\ pc' = "top"
    /\ UNCHANGED <<config, flag_continue, rects, rects_hashmap, vertices,
                   x_point, y_point, last_x_point, last_y_point, die_roll,
                   hash, num_rects, quit_pending, screen, frames, since,
                   rolls, checked>>

\* the test fails: free rects, destroy the window and the renderer, return 0
Shutdown ==
    /\ pc = "top" /\ ~ flag_continue
    /\ rects' = <<>>
    /\ pc' = "stopped"
    /\ UNCHANGED <<config, flag_continue, rects_hashmap, vertices, x_point,
                   y_point, last_x_point, last_y_point, die_roll, hash, i,
                   num_rects, quit_pending, screen, frames, since, rolls,
                   checked>>

(***************************************************************************)
(* The environment: SIGINT, delivered at any point of main once the        *)
(* handler is installed, and the window's close button.                    *)
(***************************************************************************)
signal_interrupt ==
    /\ pc \in LoopPcs \cup {"args"}
    /\ flag_continue' = FALSE
    /\ UNCHANGED <<config, pc, loopState>>

CloseWindow ==
    /\ pc \in LoopPcs
    /\ quit_pending' = TRUE
    /\ UNCHANGED <<config, flag_continue, pc, rects, rects_hashmap, vertices,
                   x_point, y_point, last_x_point, last_y_point, die_roll,
                   hash, i, num_rects, screen, frames, since, rolls,
                   checked>>

MainStep ==
    \/ OptHelp \/ OptStepping \/ OptFrameDelay \/ OptVertices
    \/ OptFraction \/ OptDimensions \/ SdlFailure \/ Setup
    \/ Continue \/ Step \/ Dedup \/ Update \/ Redraw \/ NoRedraw
    \/ Poll \/ Incr \/ Shutdown

Next ==
    \/ OptHelp \/ OptStepping \/ OptFrameDelay \/ OptVertices
    \/ OptFraction \/ OptDimensions \/ SdlFailure \/ Setup
    \/ Continue \/ Step \/ Dedup \/ Update \/ Redraw \/ NoRedraw
    \/ Poll \/ Incr \/ Shutdown
    \/ signal_interrupt \/ CloseWindow

Spec == Init /\ [][Next]_vars

\* main is scheduled: whenever it can take a step it eventually does
\* (SDL_Delay returns, the event queue drains).
FairSpec == Init /\ [][Next]_vars /\ WF_vars(MainStep)


(***************************************************************************)
(* The loop late in a long run, for the 32-bit counter: the run of         *)
(* "-s 3" whose first point is vertex 0 and whose die always shows 0.  The *)
(* point stays on the vertex, so after the first iteration rects holds it  *)
(* twice and nothing changes but i.  Iterations 0 .. 2^32-3 (or 2^32-2)    *)
(* are done; the last redraw was that of iteration 2^32-4, the             *)
(* 1431655765th.  rolls and checked start afresh here.                     *)
(***************************************************************************)
InitWrap ==
    /\ argv = <<[opt |-> "s", arg |-> 3]>>
    /\ optind = 1
    /\ screen_width = DefaultWidth
    /\ screen_height = DefaultHeight
    /\ num_vertices = DefaultVertices
    /\ factor = DefaultFactor
    /\ stepping = 3
    /\ frame_delay_ms = DefaultFrameDelay
    /\ flag_continue = TRUE
    /\ vertices \in VertexSeqs(num_vertices, num_vertices,
                               screen_width, screen_height)
    /\ rects = <<vertices[1], vertices[1]>>
    /\ rects_hashmap = Stored(<<>>, hash_point(vertices[1][1], vertices[1][2]))
    /\ x_point = vertices[1][1] /\ y_point = vertices[1][2]
    /\ last_x_point = vertices[1][1] /\ last_y_point = vertices[1][2]
    /\ die_roll = 0
    /\ hash = hash_point(vertices[1][1], vertices[1][2])
    /\ \E low \in {65534, 65535} :
         /\ i = <<65535, low>>
         /\ since = low - 65533
    /\ num_rects = 1
    /\ pc = "top"
    /\ quit_pending = FALSE
    /\ screen = <<vertices[1]>>
    /\ frames = 1431655765
    /\ rolls = <<>>
    /\ checked = {vertices[1]}

NextLoop ==
    \/ Continue \/ Step \/ Dedup \/ Update \/ Redraw \/ NoRedraw
    \/ Poll \/ Incr \/ Shutdown
    \/ signal_interrupt \/ CloseWindow

WrapSpec == InitWrap /\ [][NextLoop]_vars

(***************************************************************************)
(* The dedup check as a function of the point: the check of the loop       *)
(* applied, on the empty containers, to points of the drawing area that    *)
(* the walk need not produce.                                              *)
(***************************************************************************)
HashDims == {<<1000, 1000>>, <<20011, 65535>>, <<65535, 24481>>,
             <<20012, 24482>>, <<65535, 65535>>}
ProbeXs == {0, 1, 20011, 40022}
ProbeYs == {0, 1, 24481, 48962}

InitHash ==
    /\ \E d \in HashDims :
         /\ argv = <<[opt |-> "z", arg |-> d]>>
         /\ screen_width = d[1]
         /\ screen_height = d[2]
    /\ optind = 1
    /\ num_vertices = DefaultVertices
    /\ factor = DefaultFactor
    /\ stepping = DefaultStepping
    /\ frame_delay_ms = DefaultFrameDelay
    /\ flag_continue = TRUE
    /\ rects = <<>>
    /\ rects_hashmap = <<>>
    /\ vertices = <<>>
    /\ x_point = 0 /\ y_point = 0
    /\ last_x_point = 0 /\ last_y_point = 0
    /\ die_roll = 0
    /\ hash = <<0, 0>>
    /\ i = U32Zero
    /\ num_rects = 0
    /\ pc = "probe"
    /\ quit_pending = FALSE
    /\ screen = <<>>
    /\ frames = 0
    /\ since = 0
    /\ rolls = <<>>
    /\ checked = {}

\* since counts the points checked
HashProbe ==
    /\ pc = "probe"
    /\ since < MaxProbes
    /\ \E x \in ProbeXs, y \in ProbeYs :
         /\ x < screen_width /\ y < screen_height
         /\ x_point' = x /\ y_point' = y
         /\ DedupCheck(x, y)
    /\ since' = since + 1
    /\ UNCHANGED <<config, flag_continue, vertices, last_x_point,
                   last_y_point, die_roll, i, pc, quit_pending, screen,
                   frames, rolls>>

NextHash == HashProbe

HashSpec == InitHash /\ [][NextHash]_vars


(***************************************************************************)
(*                              The claims                                 *)
(***************************************************************************)
InArea(p) ==
    /\ 0 <= p[1] /\ p[1] < screen_width
    /\ 0 <= p[2] /\ p[2] < screen_height

\* C1: while the loop runs, the vertices, the current point and every point
\* of the accumulation buffer lie in [0, width) x [0, height), and the
\* configuration is valid.
C1Bounded ==
    pc \in LoopPcs =>
        /\ num_vertices >= 3 /\ num_vertices <= 255
        /\ 0 < factor[1] /\ factor[1] < factor[2]
        /\ screen_width >= 1 /\ screen_height >= 1
        /\ \A k \in DOMAIN vertices : InArea(vertices[k])
        /\ InArea(<<last_x_point, last_y_point>>)
        /\ \A k \in DOMAIN rects : InArea(rects[k])

\* a walk that has moved and accumulated points, away from the defaults
C1Witness ==
    /\ pc = "redraw"
    /\ Len(rects) >= 3
    /\ screen_width # DefaultWidth
    /\ <<last_x_point, last_y_point>> # rects[1]

\* C2: at every redraw the renderer is handed as many point rectangles as
\* the accumulation buffer holds.  (pc = "poll" with since = 0: the redraw
\* block of this iteration has just run.)
C2FullBuffer ==
    (pc = "poll" /\ since = 0) => Len(screen) = Len(rects)

\* C3: while the loop runs, a key is present as true in the dedup index
\* exactly when some point of the accumulation buffer hashes to it.
C3IndexMatchesBuffer ==
    pc \in LoopPcs =>
        \A k \in (DOMAIN rects_hashmap)
                 \cup {hash_point(p[1], p[2]) : p \in Range(rects)} :
            Lookup(rects_hashmap, k)
                <=> (\E p \in Range(rects) : hash_point(p[1], p[2]) = k)

\* C4: every redraw but the first comes exactly stepping generation steps
\* after the one before it, and no more than stepping steps ever pass
\* without one.
C4EverySteppingIterations ==
    [][ /\ (frames' # frames /\ frames > 0) => since = stepping
        /\ since' <= stepping ]_vars

NextInIteration(p) ==
    CASE p = "step" -> "dedup"
      [] p = "dedup" -> "update"
      [] p = "update" -> "redraw"
      [] p = "redraw" -> "poll"
      [] p = "poll" -> "incr"
      [] p = "incr" -> "top"

\* C5: once flag_continue is false it stays false; the iteration in flight
\* goes on to its end; at the next test of the loop main stops without
\* another step, append or redraw; a stopped main does nothing more; and a
\* stop requested while the loop runs leads to the stopped state.
C5StopIsPolled ==
    /\ [][(~ flag_continue) => (~ flag_continue')]_vars
    /\ [][(pc \in LoopPcs \ {"top"})
            => pc' \in {pc, NextInIteration(pc)}]_vars
    /\ [][(pc = "top" /\ ~ flag_continue)
            => (pc' \in {"top", "stopped"}
                /\ UNCHANGED <<rects_hashmap, num_rects, x_point, y_point,
                               last_x_point, last_y_point, screen, frames,
                               rolls, checked, i>>)]_vars
    /\ [][pc = "stopped" => pc' = "stopped"]_vars
    /\ ((pc \in LoopPcs /\ ~ flag_continue)
            ~> (pc = "stopped" /\ rects = <<>>))

\* stopped after a stop was asked for in the middle of an iteration that
\* went on to redraw
C5Witness ==
    /\ pc = "stopped"
    /\ Len(rolls) >= 2
    /\ frames >= 2
    /\ ~ flag_continue

InContract(o) ==
    CASE o.opt = "v" -> o.arg >= 3 /\ o.arg <= 255
      [] o.opt = "f" -> 0 < o.arg[1] /\ o.arg[1] < o.arg[2]
      [] o.opt = "s" -> o.arg > 0
      [] o.opt = "d" -> o.arg >= 0
      [] o.opt = "z" -> Len(o.arg) = 2 /\ o.arg[1] >= 1 /\ o.arg[2] >= 1
      [] o.opt = "h" -> TRUE

Adopted(o, default) ==
    LET given == {k \in 1..optind : argv[k].opt = o /\ InContract(argv[k])}
    IN  IF given = {} THEN default
        ELSE argv[CHOOSE k \in given : \A j \in given : j <= k].arg

\* C6: every parameter is the last in-contract value given for it, unchanged,
\* or its default when none was given.
C6ContractOrDefault ==
    /\ num_vertices = Adopted("v", DefaultVertices)
    /\ factor = Adopted("f", DefaultFactor)
    /\ stepping = Adopted("s", DefaultStepping)
    /\ frame_delay_ms = Adopted("d", DefaultFrameDelay)
    /\ <<screen_width, screen_height>>
           = Adopted("z", <<DefaultWidth, DefaultHeight>>)
    /\ num_vertices >= 3 /\ num_vertices <= 255
    /\ 0 < factor[1] /\ factor[1] < factor[2]
    /\ stepping >= 1 /\ screen_width >= 1 /\ screen_height >= 1

IsDedupStep == pc = "dedup" /\ pc' = "update"

\* C7: until the shutdown frees it, the accumulation buffer only grows at
\* its end: a dedup check that finds the key absent appends exactly one
\* point, one that finds it present leaves the buffer alone, and no other
\* step of the loop touches it.
C7AppendOnly ==
    [][ pc' # "stopped" =>
          /\ Len(rects') >= Len(rects)
          /\ SubSeq(rects', 1, Len(rects)) = rects
          /\ IsDedupStep =>
               IF Lookup(rects_hashmap, hash_point(x_point, y_point))
               THEN rects' = rects
               ELSE Len(rects') = Len(rects) + 1
          /\ (pc \in LoopPcs /\ ~ IsDedupStep) => rects' = rects ]_vars

\* three checks made, one of which found its key present
C7Witness ==
    /\ pc = "update"
    /\ Len(rolls) = 3
    /\ Len(rects) = 3

\* C8: a dedup check of a pair that was checked before finds the key present
\* and changes neither the buffer, nor its count, nor the index.
C8Idempotent ==
    [][ (IsDedupStep /\ <<x_point, y_point>> \in checked) =>
          /\ Lookup(rects_hashmap, hash_point(x_point, y_point))
          /\ rects' = rects
          /\ num_rects' = num_rects
          /\ rects_hashmap' = rects_hashmap ]_vars

\* a pair has been checked a second time, another pair in between
C8Witness ==
    /\ pc = "update"
    /\ Len(rolls) = 3
    /\ Cardinality(checked) = 2
    /\ Len(rects) = 3
    /\ <<x_point, y_point>> # <<last_x_point, last_y_point>>

RoundedBlend(current, vertex, f) ==
    LET twice == 2 * (current * (f[2] - f[1]) + vertex * f[1])
    IN  IF twice % (2 * f[2]) >= f[2] THEN (twice \div (2 * f[2])) + 1
        ELSE twice \div (2 * f[2])

\* the points after 0 .. k rolls, the first point first
RECURSIVE WalkTo(_)
WalkTo(k) ==
    IF k = 0 THEN <<rects[1]>>
    ELSE LET w == WalkTo(k - 1)
             v == vertices[rolls[k] + 1]
         IN  Append(w, <<RoundedBlend(w[k][1], v[1], factor),
                         RoundedBlend(w[k][2], v[2], factor)>>)

WalkAt(k) == WalkTo(k)[k + 1]

\* the buffer after the first k points of walk w (w[1] is the first point)
RECURSIVE BufferOf(_, _)
BufferOf(w, k) ==
    IF k = 0 THEN <<w[1]>>
    ELSE LET b == BufferOf(w, k - 1)
         IN  IF \E j \in 2 .. k :
                    hash_point(w[j][1], w[j][2])
                        = hash_point(w[k + 1][1], w[k + 1][2])
             THEN b
             ELSE Append(b, w[k + 1])

BufferAt(k) == BufferOf(WalkTo(k), k)

\* C9: the current point and the buffer are functions of the first point,
\* the vertices, the factor and the die rolls alone: the current point after
\* k rolls is the first point blended k times, by round(current * (1 - f) +
\* vertex * f) on each axis, accepted or not, and the buffer is the first
\* point followed by the blended points whose key no earlier one had.
C9Deterministic ==
    pc \in LoopPcs =>
        LET n == Len(rolls) IN
        /\ pc \in {"top", "step", "redraw", "poll", "incr"} =>
             /\ <<last_x_point, last_y_point>> = WalkAt(n)
             /\ rects = BufferAt(n)
        /\ pc = "dedup" =>
             /\ <<x_point, y_point>> = WalkAt(n)
             /\ <<last_x_point, last_y_point>> = WalkAt(n - 1)
             /\ rects = BufferAt(n - 1)
        /\ pc = "update" =>
             /\ <<x_point, y_point>> = WalkAt(n)
             /\ <<last_x_point, last_y_point>> = WalkAt(n - 1)
             /\ rects = BufferAt(n)

\* the current point has moved onto a point that was not accepted, in a run
\* that redrew on its first iteration and not on the two after it
C9Witness ==
    /\ pc = "redraw"
    /\ Len(rolls) = 3
    /\ Len(rects) < 4
    /\ <<last_x_point, last_y_point>> = <<x_point, y_point>>
    /\ frames = 1
    /\ since = 2

AreaProbes ==
    {<<x, y>> : x \in {a \in ProbeXs : a < screen_width},
                y \in {b \in ProbeYs : b < screen_height}}

\* C10: two distinct points of the drawing area have the same key only when
\* they differ by k * PRIME_1 in x and by -k * PRIME_2 in y for some k # 0;
\* so with width <= PRIME_1 or height <= PRIME_2 every point the check was
\* applied to is in the buffer (none was taken for another one).
C10CollisionsOnly ==
    /\ \A p \in AreaProbes, q \in AreaProbes :
         (p # q /\ hash_point(p[1], p[2]) = hash_point(q[1], q[2])) =>
             \E k \in {-3, -2, -1, 1, 2, 3} :
                 /\ p[1] - q[1] = PRIME_1 * k
                 /\ q[2] - p[2] = PRIME_2 * k
    /\ (screen_width <= PRIME_1 \/ screen_height <= PRIME_2) =>
         checked \subseteq Range(rects)
    /\ ~ (checked \subseteq Range(rects)) =>
         (screen_width > PRIME_1 /\ screen_height > PRIME_2)

\* a point was taken for a different one checked before it
C10Witness ==
    /\ ~ (checked \subseteq Range(rects))
    /\ Len(rects) = 1
    /\ since = 2

=============================================================================
